---- MODULE Spec2Model ----
(***************************************************************************)
(* The Reflect built-in dispatcher of JerryScript,                         *)
(* ecma_builtin_reflect_dispatch_routine (ecma-builtin-reflect.c).         *)
(*                                                                         *)
(* One dispatch call is a frame on `stack`.  A frame advances in steps     *)
(* that are cut at the calls the dispatcher makes into the rest of the     *)
(* engine: argument validation, ecma_op_to_prop_name,                     *)
(* ecma_op_create_list_from_array_like, the object-model routine, the     *)
(* code after that routine has returned, and the return to the caller.    *)
(* Everything outside the dispatcher (the object model, the coercions,    *)
(* the engine context holding the pending exception) is the environment:  *)
(* its outcomes are chosen nondeterministically.                          *)
(***************************************************************************)
EXTENDS Integers, Sequences, FiniteSets, TLC

VARIABLES
  stack,      \* the dispatch frames in progress, outermost first
  returned,   \* the frame of the call that has just returned, or NoFrame
  exception,  \* the engine context's pending exception, or NoException
  liveKeys,   \* references to property-name strings held by dispatch frames
  liveBufs    \* argument collections allocated and not yet freed

vars == <<stack, returned, exception, liveKeys, liveBufs>>

----------------------------------------------------------------------------
(* Bounds of the model *)

\* the longest argument list a caller passes
MaxArgs == 4

\* the deepest nesting of dispatch calls when routines call back in
MaxDepth == 2

----------------------------------------------------------------------------
(* Routine identifiers: the enum of lines 40-56.  ECMA_BUILTIN_ID__COUNT is set *)
(* by the list of built-ins outside this file; only the order of the          *)
(* identifiers matters to the dispatcher.                                     *)

ECMA_BUILTIN_ID__COUNT == 1
ECMA_REFLECT_OBJECT_ROUTINE_START == ECMA_BUILTIN_ID__COUNT - 1
ECMA_REFLECT_OBJECT_GET == ECMA_REFLECT_OBJECT_ROUTINE_START + 1
ECMA_REFLECT_OBJECT_SET == ECMA_REFLECT_OBJECT_GET + 1
ECMA_REFLECT_OBJECT_HAS == ECMA_REFLECT_OBJECT_SET + 1
ECMA_REFLECT_OBJECT_DELETE_PROPERTY == ECMA_REFLECT_OBJECT_HAS + 1
ECMA_REFLECT_OBJECT_CONSTRUCT == ECMA_REFLECT_OBJECT_DELETE_PROPERTY + 1
ECMA_REFLECT_OBJECT_OWN_KEYS == ECMA_REFLECT_OBJECT_CONSTRUCT + 1
ECMA_REFLECT_OBJECT_GET_PROTOTYPE_OF == ECMA_REFLECT_OBJECT_OWN_KEYS + 1
ECMA_REFLECT_OBJECT_SET_PROTOTYPE_OF == ECMA_REFLECT_OBJECT_GET_PROTOTYPE_OF + 1
ECMA_REFLECT_OBJECT_APPLY == ECMA_REFLECT_OBJECT_SET_PROTOTYPE_OF + 1
ECMA_REFLECT_OBJECT_DEFINE_PROPERTY == ECMA_REFLECT_OBJECT_APPLY + 1
ECMA_REFLECT_OBJECT_GET_OWN_PROPERTY_DESCRIPTOR == ECMA_REFLECT_OBJECT_DEFINE_PROPERTY + 1
ECMA_REFLECT_OBJECT_IS_EXTENSIBLE == ECMA_REFLECT_OBJECT_GET_OWN_PROPERTY_DESCRIPTOR + 1
ECMA_REFLECT_OBJECT_PREVENT_EXTENSIONS == ECMA_REFLECT_OBJECT_IS_EXTENSIBLE + 1

\* the thirteen routines the built-in registers
RoutineIds == ECMA_REFLECT_OBJECT_GET .. ECMA_REFLECT_OBJECT_PREVENT_EXTENSIONS

----------------------------------------------------------------------------
(* Values and the engine's predicates on them *)

\* One value of each kind the dispatcher's tests tell apart.  "thrower" is an
\* object whose conversion hooks (toString, the length getter) throw;
\* "constructor" and "class" are two different constructors.
Values ==
  {"undefined", "number", "object", "thrower", "function", "constructor", "class"}

ECMA_VALUE_UNDEFINED == "undefined"
ECMA_VALUE_ERROR == "ERROR"
ECMA_VALUE_TRUE == "true"
ECMA_VALUE_FALSE == "false"

\* a value slot nothing has been stored in yet
NoValue == "unset"

ECMA_IS_VALUE_ERROR(v) == v = ECMA_VALUE_ERROR

ecma_make_boolean_value(b) == IF b THEN ECMA_VALUE_TRUE ELSE ECMA_VALUE_FALSE

ecma_is_value_object(v) ==
  v \in {"object", "thrower", "function", "constructor", "class"}

ecma_op_is_callable(v) == v \in {"function", "constructor", "class"}

ecma_is_constructor(v) == v \in {"constructor", "class"}

NULL == [ptr |-> "NULL"]

ecma_get_object_from_value(v) == [ptr |-> "object", of |-> v]

\* ToPropertyKey: a new reference to the name string of v, or NULL with an
\* exception raised
ecma_op_to_prop_name(v) ==
  IF v = "thrower" THEN NULL ELSE [ptr |-> "string", name |-> v]

\* the number of indexed elements of an array-like
ArrayLikeLength(v) ==
  CASE v = "function" -> 1
    [] v = "constructor" -> 2
    [] OTHER -> 0

\* CreateListFromArrayLike: a new collection, or NULL with an exception raised
ecma_op_create_list_from_array_like(v) ==
  IF ~ecma_is_value_object(v) \/ v = "thrower"
    THEN NULL
    ELSE [ptr |-> "collection", buffer_p |-> [items_of |-> v],
          item_count |-> ArrayLikeLength(v)]

\* what an object-model routine can hand back: an error or some value
DelegateOutcomes == {ECMA_VALUE_ERROR, ECMA_VALUE_TRUE, ECMA_VALUE_FALSE, "object"}

----------------------------------------------------------------------------
(* Error messages and the pending exception *)

NoException == "none"
ERR_NOT_OBJECT == "Argument is not an Object."
ERR_NOT_CONSTRUCTOR == "Target is not a constructor"
ERR_CONSTRUCT_ARITY == "Reflect.construct requires the second argument be an object"
ERR_NOT_FUNCTION == "Argument 'this' is not a function."

\* exceptions thrown inside the collaborators
EXC_TO_PROP_NAME == "thrown by ecma_op_to_prop_name"
EXC_CREATE_LIST == "thrown by ecma_op_create_list_from_array_like"
EXC_DELEGATE == "thrown by the object-model routine"

NoError == [msg |-> NoException, site |-> "none"]

----------------------------------------------------------------------------
(* The argument list *)

\* every argument list of at most MaxArgs values
\* The highest index the routine reads is arguments_list[3] (the receiver of
\* Set); an argument past it is only counted, so one value stands for it.
LastIndexRead == 3

ArgumentValues(i) == IF i <= LastIndexRead + 1 THEN Values ELSE {"number"}

ArgLists ==
  UNION {{args \in [1..n -> Values] : \A i \in 1..n : args[i] \in ArgumentValues(i)}
           : n \in 0..MaxArgs}

arguments_number(args) == Len(args)

\* arguments_list[i], 0-based.  The built-in call machinery hands the routine
\* a list in which the positions past the argument count hold undefined.
arguments_list(args, i) ==
  IF i < Len(args) THEN args[i + 1] ELSE ECMA_VALUE_UNDEFINED

----------------------------------------------------------------------------
(* Dispatch frames *)

NoCall == [fn |-> "none"]

NoFrame == [pc |-> "none"]

\* the locals of one call of ecma_builtin_reflect_dispatch_routine
NewFrame(id, args) ==
  [id |-> id, args |-> args, pc |-> "entry", site |-> "none",
   new_target_p |-> NULL, name_str_p |-> NULL, coll_p |-> NULL,
   call |-> NoCall, ret_value |-> NoValue, result |-> NoValue,
   held_keys |-> 0, held_bufs |-> 0, assert_ok |-> TRUE, trace |-> <<>>]

Top == stack[Len(stack)]

SetTop(f) == [stack EXCEPT ![Len(stack)] = f]

\* how often the frame's trace names the engine routine fn
Count(trace, fn) == Len(SelectSeq(trace, LAMBDA x : x = fn))

----------------------------------------------------------------------------
(* Argument validation: everything before the first collaborator call *)

\* lines 92-95: Get, Set, Has, DeleteProperty
ClassAShapeError(args) ==
  IF arguments_number(args) = 0 \/ ~ecma_is_value_object(arguments_list(args, 0))
    THEN [msg |-> ERR_NOT_OBJECT, site |-> "A.1"]
    ELSE NoError

\* lines 160-163: OwnKeys
OwnKeysShapeError(args) ==
  IF arguments_number(args) = 0 \/ ~ecma_is_value_object(arguments_list(args, 0))
    THEN [msg |-> ERR_NOT_OBJECT, site |-> "B.1"]
    ELSE NoError



\* ConstructShapeError testing the third argument whether or not it was given
ConstructShapeError_NewTargetAlways(args) ==
  IF arguments_number(args) < 1 \/ ~ecma_is_constructor(arguments_list(args, 0))
    THEN [msg |-> ERR_NOT_CONSTRUCTOR, site |-> "C.1"]
  ELSE IF ~ecma_is_constructor(arguments_list(args, 2))
    THEN [msg |-> ERR_NOT_CONSTRUCTOR, site |-> "C.3"]
  ELSE IF arguments_number(args) < 2
    THEN [msg |-> ERR_CONSTRUCT_ARITY, site |-> "C.4"]
  ELSE NoError

\* ConstructShapeError with the arity check moved to the front
ConstructShapeError_ArityFirst(args) ==
  IF arguments_number(args) < 2
    THEN [msg |-> ERR_CONSTRUCT_ARITY, site |-> "C.4"]
  ELSE IF ~ecma_is_constructor(arguments_list(args, 0))
    THEN [msg |-> ERR_NOT_CONSTRUCTOR, site |-> "C.1"]
  ELSE IF arguments_number(args) > 2 /\ ~ecma_is_constructor(arguments_list(args, 2))
    THEN [msg |-> ERR_NOT_CONSTRUCTOR, site |-> "C.3"]
  ELSE NoError

\* lines 174-199: Construct
ConstructShapeError(args) ==
  IF arguments_number(args) < 1 \/ ~ecma_is_constructor(arguments_list(args, 0))
    THEN [msg |-> ERR_NOT_CONSTRUCTOR, site |-> "C.1"]
  ELSE IF arguments_number(args) > 2 /\ ~ecma_is_constructor(arguments_list(args, 2))
    THEN [msg |-> ERR_NOT_CONSTRUCTOR, site |-> "C.3"]
  ELSE IF arguments_number(args) < 2
    THEN [msg |-> ERR_CONSTRUCT_ARITY, site |-> "C.4"]
  ELSE NoError


\* ConstructNewTarget keeping the target whatever the third argument is
ConstructNewTarget_AlwaysTarget(args) ==
  ecma_get_object_from_value(arguments_list(args, 0))

\* lines 179-193: the new target of Construct
ConstructNewTarget(args) ==
  IF arguments_number(args) > 2
    THEN ecma_get_object_from_value(arguments_list(args, 2))
    ELSE ecma_get_object_from_value(arguments_list(args, 0))



\* ClassDShapeError without the callable check of Apply, lines 246-249
ClassDShapeError_NoCallableCheck(id, args) ==
  IF ~ecma_is_value_object(arguments_list(args, 0))
    THEN [msg |-> ERR_NOT_OBJECT, site |-> "D.1"]
    ELSE NoError

\* ClassDShapeError without the shared object check of lines 217-220
ClassDShapeError_NoObjectCheck(id, args) ==
  IF id = ECMA_REFLECT_OBJECT_APPLY /\ ~ecma_op_is_callable(arguments_list(args, 0))
    THEN [msg |-> ERR_NOT_FUNCTION, site |-> "D.apply"]
    ELSE NoError

\* lines 217-220 and, for Apply, 246-249: the remaining seven routines
ClassDShapeError(id, args) ==
  IF ~ecma_is_value_object(arguments_list(args, 0))
    THEN [msg |-> ERR_NOT_OBJECT, site |-> "D.1"]
  ELSE IF id = ECMA_REFLECT_OBJECT_APPLY /\ ~ecma_op_is_callable(arguments_list(args, 0))
    THEN [msg |-> ERR_NOT_FUNCTION, site |-> "D.apply"]
  ELSE NoError


\* ValidationClass with the first test written <= instead of <
ValidationClass_LessOrEqual(id) ==
  IF id <= ECMA_REFLECT_OBJECT_CONSTRUCT THEN "A"
  ELSE IF id = ECMA_REFLECT_OBJECT_OWN_KEYS THEN "B"
  ELSE IF id = ECMA_REFLECT_OBJECT_CONSTRUCT THEN "C"
  ELSE "D"

\* lines 89, 157, 171, 217: the class a routine identifier falls into
ValidationClass(id) ==
  IF id < ECMA_REFLECT_OBJECT_CONSTRUCT THEN "A"
  ELSE IF id = ECMA_REFLECT_OBJECT_OWN_KEYS THEN "B"
  ELSE IF id = ECMA_REFLECT_OBJECT_CONSTRUCT THEN "C"
  ELSE "D"

ShapeError(id, args) ==
  CASE ValidationClass(id) = "A" -> ClassAShapeError(args)
    [] ValidationClass(id) = "B" -> OwnKeysShapeError(args)
    [] ValidationClass(id) = "C" -> ConstructShapeError(args)
    [] OTHER -> ClassDShapeError(id, args)

\* the collaborator a validated call turns to first
AfterValidation(id) ==
  CASE ValidationClass(id) = "A" -> "to_prop_name"
    [] ValidationClass(id) = "B" -> "call"
    [] ValidationClass(id) = "C" -> "create_list"
    [] id \in {ECMA_REFLECT_OBJECT_DEFINE_PROPERTY,
               ECMA_REFLECT_OBJECT_GET_OWN_PROPERTY_DESCRIPTOR} -> "to_prop_name"
    [] OTHER -> "call"

ValidateStep(f) ==
  LET e == ShapeError(f.id, f.args)
  IN IF e # NoError
       THEN [f EXCEPT !.pc = "exit", !.result = ECMA_VALUE_ERROR, !.site = e.site,
                      !.trace = Append(@, "ecma_raise_type_error")]
       ELSE [f EXCEPT !.pc = AfterValidation(f.id),
                      !.new_target_p = IF f.id = ECMA_REFLECT_OBJECT_CONSTRUCT
                                         THEN ConstructNewTarget(f.args) ELSE @]

----------------------------------------------------------------------------
(* The two coercions *)

\* lines 98-99 (Class A) and 257, 282 (DefineProperty, GetOwnPropertyDescriptor):
\* the value handed to ecma_op_to_prop_name
KeyArgument(id, args) ==
  IF ValidationClass(id) = "A"
    THEN IF arguments_number(args) > 1 THEN arguments_list(args, 1)
                                       ELSE ECMA_VALUE_UNDEFINED
    ELSE arguments_list(args, 1)



\* ToPropNameStep trying the coercion again after it failed
ToPropNameStep_Retry(f) ==
  LET name_str_p == ecma_op_to_prop_name(KeyArgument(f.id, f.args))
  IN IF name_str_p = NULL
       THEN [f EXCEPT !.trace = Append(@, "ecma_op_to_prop_name")]
       ELSE [f EXCEPT !.pc = "call", !.name_str_p = name_str_p,
                      !.held_keys = @ + 1,
                      !.trace = Append(@, "ecma_op_to_prop_name")]

\* ToPropNameStep answering false, exception dropped, when the coercion fails
\* in DefineProperty
ToPropNameStep_FalseInDefineProperty(f) ==
  LET name_str_p == ecma_op_to_prop_name(KeyArgument(f.id, f.args))
  IN IF name_str_p = NULL
       THEN [f EXCEPT !.pc = "exit",
                      !.result = IF f.id = ECMA_REFLECT_OBJECT_DEFINE_PROPERTY
                                   THEN ECMA_VALUE_FALSE ELSE ECMA_VALUE_ERROR,
                      !.site = "to_prop_name",
                      !.trace = Append(@, "ecma_op_to_prop_name")]
       ELSE [f EXCEPT !.pc = "call", !.name_str_p = name_str_p,
                      !.held_keys = @ + 1,
                      !.trace = Append(@, "ecma_op_to_prop_name")]

\* lines 98-105, 257-262, 282-287
ToPropNameStep(f) ==
  LET name_str_p == ecma_op_to_prop_name(KeyArgument(f.id, f.args))
  IN IF name_str_p = NULL
       THEN [f EXCEPT !.pc = "exit", !.result = ECMA_VALUE_ERROR,
                      !.site = "to_prop_name",
                      !.trace = Append(@, "ecma_op_to_prop_name")]
       ELSE [f EXCEPT !.pc = "call", !.name_str_p = name_str_p,
                      !.held_keys = @ + 1,
                      !.trace = Append(@, "ecma_op_to_prop_name")]

\* lines 201-206
CreateListStep(f) ==
  LET coll_p == ecma_op_create_list_from_array_like(arguments_list(f.args, 1))
  IN IF coll_p = NULL
       THEN [f EXCEPT !.pc = "exit", !.result = ECMA_VALUE_ERROR,
                      !.site = "create_list",
                      !.trace = Append(@, "ecma_op_create_list_from_array_like")]
       ELSE [f EXCEPT !.pc = "call", !.coll_p = coll_p,
                      !.held_bufs = @ + 1,
                      !.trace = Append(@, "ecma_op_create_list_from_array_like")]

----------------------------------------------------------------------------
(* The call into the object model *)

\* lines 109-151: the switch of Class A
ClassABranch(id) ==
  CASE id = ECMA_REFLECT_OBJECT_GET -> "get"
    [] id = ECMA_REFLECT_OBJECT_HAS -> "has"
    [] id = ECMA_REFLECT_OBJECT_DELETE_PROPERTY -> "delete"
    [] OTHER -> "default"

\* lines 222-304: the switch of Class D
ClassDBranch(id) ==
  CASE id = ECMA_REFLECT_OBJECT_GET_PROTOTYPE_OF -> "get_prototype_of"
    [] id = ECMA_REFLECT_OBJECT_SET_PROTOTYPE_OF -> "set_prototype_of"
    [] id = ECMA_REFLECT_OBJECT_APPLY -> "apply"
    [] id = ECMA_REFLECT_OBJECT_DEFINE_PROPERTY -> "define_property"
    [] id = ECMA_REFLECT_OBJECT_GET_OWN_PROPERTY_DESCRIPTOR -> "get_own_property_descriptor"
    [] id = ECMA_REFLECT_OBJECT_IS_EXTENSIBLE -> "is_extensible"
    [] OTHER -> "default"

\* the branch of the dispatcher a validated call runs
Branch(id) ==
  CASE ValidationClass(id) = "A" -> ClassABranch(id)
    [] ValidationClass(id) = "B" -> "own_keys"
    [] ValidationClass(id) = "C" -> "construct"
    [] OTHER -> ClassDBranch(id)

\* lines 139 and 300: the JERRY_ASSERT of the two default branches
AssertHolds(id) ==
  CASE ValidationClass(id) = "A" /\ ClassABranch(id) = "default" ->
         id = ECMA_REFLECT_OBJECT_SET
    [] ValidationClass(id) = "D" /\ ClassDBranch(id) = "default" ->
         id = ECMA_REFLECT_OBJECT_PREVENT_EXTENSIONS
    [] OTHER -> TRUE


\* GetReceiver falling back to the target when the explicit receiver is not
\* an object
GetReceiver_ObjectsOnly(args) ==
  IF arguments_number(args) > 2 /\ ecma_is_value_object(arguments_list(args, 2))
    THEN arguments_list(args, 2) ELSE arguments_list(args, 0)

\* lines 113-121: the receiver of Get
GetReceiver(args) ==
  IF arguments_number(args) > 2 THEN arguments_list(args, 2) ELSE arguments_list(args, 0)

\* lines 141-148: the receiver of Set
SetReceiver(args) ==
  IF arguments_number(args) > 3 THEN arguments_list(args, 3) ELSE arguments_list(args, 0)


\* SetValue reading the slot before the value
SetValue_OffByOne(args) == arguments_list(args, 1)

\* line 148: the value of Set
SetValue(args) == arguments_list(args, 2)

\* the object-model routine a frame calls and what it passes
DelegateCall(f) ==
  LET target_p == ecma_get_object_from_value(arguments_list(f.args, 0))
      b == Branch(f.id)
  IN CASE ValidationClass(f.id) = "A" /\ b = "get" ->
            [fn |-> "ecma_op_object_get_with_receiver", target |-> target_p,
             name |-> f.name_str_p, receiver |-> GetReceiver(f.args)]
       [] ValidationClass(f.id) = "A" /\ b = "has" ->
            [fn |-> "ecma_op_object_has_property", target |-> target_p,
             name |-> f.name_str_p]
       [] ValidationClass(f.id) = "A" /\ b = "delete" ->
            [fn |-> "ecma_op_object_delete", target |-> target_p,
             name |-> f.name_str_p]
       [] ValidationClass(f.id) = "A" /\ b = "default" ->
            [fn |-> "ecma_op_object_put_with_receiver", target |-> target_p,
             name |-> f.name_str_p, value |-> SetValue(f.args),
             receiver |-> SetReceiver(f.args)]
       [] b = "own_keys" ->
            [fn |-> "ecma_builtin_helper_object_get_properties", target |-> target_p,
             opts |-> "ECMA_LIST_SYMBOLS"]
       [] b = "construct" ->
            [fn |-> "ecma_op_function_construct", target |-> target_p,
             new_target |-> f.new_target_p, buffer |-> f.coll_p.buffer_p,
             count |-> f.coll_p.item_count]
       [] b = "get_prototype_of" ->
            [fn |-> "ecma_builtin_object_object_get_prototype_of", target |-> target_p]
       [] b = "set_prototype_of" ->
            [fn |-> "ecma_builtin_object_object_set_prototype_of",
             object |-> arguments_list(f.args, 0), proto |-> arguments_list(f.args, 1)]
       [] b = "apply" ->
            [fn |-> "ecma_builtin_function_prototype_object_apply", target |-> target_p,
             this_arg |-> arguments_list(f.args, 1), array |-> arguments_list(f.args, 2)]
       [] b = "define_property" ->
            [fn |-> "ecma_builtin_object_object_define_property", target |-> target_p,
             name |-> f.name_str_p, descriptor |-> arguments_list(f.args, 2)]
       [] b = "get_own_property_descriptor" ->
            [fn |-> "ecma_builtin_object_object_get_own_property_descriptor",
             target |-> target_p, name |-> f.name_str_p]
       [] b = "is_extensible" ->
            [fn |-> "ecma_builtin_object_object_is_extensible", target |-> target_p]
       [] OTHER ->
            [fn |-> "ecma_builtin_object_object_prevent_extensions", target |-> target_p]

\* InvokeStep dropping the name reference before the routine is entered
InvokeStep_ReleaseFirst(f) ==
  LET g == IF f.name_str_p # NULL
             THEN [f EXCEPT !.held_keys = @ - 1,
                            !.trace = Append(@, "ecma_deref_ecma_string")]
             ELSE f
      c == DelegateCall(g)
  IN [g EXCEPT !.pc = "running", !.call = c, !.assert_ok = AssertHolds(g.id),
               !.trace = Append(@, c.fn)]

InvokeStep(f) ==
  LET c == DelegateCall(f)
  IN [f EXCEPT !.pc = "running", !.call = c, !.assert_ok = AssertHolds(f.id),
               !.trace = Append(@, c.fn)]

----------------------------------------------------------------------------
(* After the object-model routine has returned *)


\* Deref dropping two references where one was taken
Deref_Twice(f) ==
  [f EXCEPT !.held_keys = @ - 2, !.trace = Append(@, "ecma_deref_ecma_string")]

\* ecma_deref_ecma_string (name_str_p)
Deref(f) ==
  [f EXCEPT !.held_keys = @ - 1, !.trace = Append(@, "ecma_deref_ecma_string")]

\* ecma_collection_free (coll_p)
CollectionFree(f) ==
  [f EXCEPT !.held_bufs = @ - 1, !.trace = Append(@, "ecma_collection_free")]

\* return v
ReturnValue(f, v) == [f EXCEPT !.pc = "exit", !.result = v]


\* Booleanize without jcontext_release_exception: the result is freed as if it
\* were a value
Booleanize_KeepException(f) ==
  LET is_error == ECMA_IS_VALUE_ERROR(f.ret_value)
      g == [f EXCEPT !.trace = Append(@, "ecma_free_value")]
  IN ReturnValue(g, ecma_make_boolean_value(~is_error))

\* lines 231-242 and 266-277: drop the exception or the value, answer a boolean
Booleanize(f) ==
  LET is_error == ECMA_IS_VALUE_ERROR(f.ret_value)
      g == [f EXCEPT !.trace = Append(@, IF is_error THEN "jcontext_release_exception"
                                                     ELSE "ecma_free_value")]
  IN ReturnValue(g, ecma_make_boolean_value(~is_error))


\* EpilogueClassA returning early, without the release, when the routine failed
EpilogueClassA_LeakOnError(f) ==
  IF ECMA_IS_VALUE_ERROR(f.ret_value)
    THEN ReturnValue(f, f.ret_value)
    ELSE ReturnValue(Deref(f), f.ret_value)

\* lines 153-154
EpilogueClassA(f) == ReturnValue(Deref(f), f.ret_value)


\* EpilogueConstruct returning early, without the free, when the constructor failed
EpilogueConstruct_NoFreeOnError(f) ==
  IF ECMA_IS_VALUE_ERROR(f.ret_value)
    THEN ReturnValue(f, f.ret_value)
    ELSE ReturnValue(CollectionFree(f), f.ret_value)

\* lines 213-214
EpilogueConstruct(f) == ReturnValue(CollectionFree(f), f.ret_value)


\* EpilogueSetPrototypeOf handing back what the routine returned
EpilogueSetPrototypeOf_Propagate(f) == ReturnValue(f, f.ret_value)

\* lines 231-242
EpilogueSetPrototypeOf(f) == Booleanize(f)


\* EpilogueDefineProperty releasing the name only when the routine succeeded
EpilogueDefineProperty_LeakOnError(f) ==
  IF ECMA_IS_VALUE_ERROR(f.ret_value) THEN Booleanize(f) ELSE Booleanize(Deref(f))

\* lines 265-277
EpilogueDefineProperty(f) == Booleanize(Deref(f))


\* EpilogueGetOwnPropertyDescriptor converting like DefineProperty does
EpilogueGetOwnPropertyDescriptor_Booleanize(f) == Booleanize(Deref(f))

\* lines 290-291
EpilogueGetOwnPropertyDescriptor(f) == ReturnValue(Deref(f), f.ret_value)

\* lines 168, 226, 252, 296, 302: return what the routine returned
EpilogueTailCall(f) == ReturnValue(f, f.ret_value)

EpilogueStep(f) ==
  CASE ValidationClass(f.id) = "A" -> EpilogueClassA(f)
    [] Branch(f.id) = "construct" -> EpilogueConstruct(f)
    [] Branch(f.id) = "set_prototype_of" -> EpilogueSetPrototypeOf(f)
    [] Branch(f.id) = "define_property" -> EpilogueDefineProperty(f)
    [] Branch(f.id) = "get_own_property_descriptor" -> EpilogueGetOwnPropertyDescriptor(f)
    [] OTHER -> EpilogueTailCall(f)

----------------------------------------------------------------------------
(* The state machine *)

Init ==
  /\ stack = <<>>
  /\ returned = NoFrame
  /\ exception = NoException
  /\ liveKeys = 0
  /\ liveBufs = 0

\* The engine calls a Reflect routine.  It does so with no exception pending:
\* one left by an earlier call has been handled by then.
Call ==
  /\ stack = <<>>
  /\ returned = NoFrame
  /\ exception = NoException
  /\ \E id \in RoutineIds, args \in ArgLists :
       stack' = <<NewFrame(id, args)>>
  /\ UNCHANGED <<returned, exception, liveKeys, liveBufs>>

\* the argument checks, up to the first raise or the first collaborator call
Validate ==
  /\ stack # <<>>
  /\ Top.pc = "entry"
  /\ stack' = SetTop(ValidateStep(Top))
  /\ exception' = IF ValidateStep(Top).pc = "exit"
                    THEN ShapeError(Top.id, Top.args).msg ELSE exception
  /\ returned' = NoFrame
  /\ UNCHANGED <<liveKeys, liveBufs>>

\* ecma_op_to_prop_name and the test of its result
ToPropName ==
  /\ stack # <<>>
  /\ Top.pc = "to_prop_name"
  /\ stack' = SetTop(ToPropNameStep(Top))
  /\ liveKeys' = liveKeys + ToPropNameStep(Top).held_keys - Top.held_keys
  /\ exception' = IF ToPropNameStep(Top).pc = "exit" THEN EXC_TO_PROP_NAME ELSE exception
  /\ returned' = NoFrame
  /\ UNCHANGED liveBufs

\* ecma_op_create_list_from_array_like and the test of its result
CreateList ==
  /\ stack # <<>>
  /\ Top.pc = "create_list"
  /\ stack' = SetTop(CreateListStep(Top))
  /\ liveBufs' = liveBufs + CreateListStep(Top).held_bufs - Top.held_bufs
  /\ exception' = IF CreateListStep(Top).pc = "exit" THEN EXC_CREATE_LIST ELSE exception
  /\ returned' = NoFrame
  /\ UNCHANGED liveKeys

\* the dispatcher enters the object-model routine of its branch
Invoke ==
  /\ stack # <<>>
  /\ Top.pc = "call"
  /\ stack' = SetTop(InvokeStep(Top))
  /\ returned' = NoFrame
  /\ UNCHANGED <<exception, liveKeys, liveBufs>>

\* the object-model routine returns a value, or an error with an exception raised
DelegateReturn ==
  /\ stack # <<>>
  /\ Top.pc = "running"
  /\ \E r \in DelegateOutcomes :
       /\ stack' = SetTop([Top EXCEPT !.pc = "epilogue", !.ret_value = r])
       /\ exception' = IF ECMA_IS_VALUE_ERROR(r) THEN EXC_DELEGATE ELSE NoException
  /\ returned' = NoFrame
  /\ UNCHANGED <<liveKeys, liveBufs>>

\* the dispatcher's code after the routine: releases, conversion, return value
Epilogue ==
  /\ stack # <<>>
  /\ Top.pc = "epilogue"
  /\ stack' = SetTop(EpilogueStep(Top))
  /\ liveKeys' = liveKeys + EpilogueStep(Top).held_keys - Top.held_keys
  /\ liveBufs' = liveBufs + EpilogueStep(Top).held_bufs - Top.held_bufs
  /\ exception' = IF Count(EpilogueStep(Top).trace, "jcontext_release_exception")
                       > Count(Top.trace, "jcontext_release_exception")
                    THEN NoException ELSE exception
  /\ returned' = NoFrame
 
\* the dispatcher returns to its caller
Return ==
  /\ stack # <<>>
  /\ Top.pc = "exit"
  /\ returned' = Top
  /\ stack' = SubSeq(stack, 1, Len(stack) - 1)
  /\ UNCHANGED <<exception, liveKeys, liveBufs>>

\* the engine takes the result of the outermost call and handles its exception
Consume ==
  /\ stack = <<>>
  /\ returned # NoFrame
  /\ returned' = NoFrame
  /\ exception' = NoException
  /\ UNCHANGED <<stack, liveKeys, liveBufs>>

Next ==
  \/ Call
  \/ Validate
  \/ ToPropName
  \/ CreateList
  \/ Invoke
  \/ DelegateReturn
  \/ Epilogue
  \/ Return
  \/ Consume

Spec == Init /\ [][Next]_vars

----------------------------------------------------------------------------
(* The state machine with routines that call back into the dispatcher *)

\* the argument lists of the calls made where calls nest: none, a
\* constructor with an array-like, an object with a key that does not coerce
ReentrantArgLists == {<<>>, <<"constructor", "object">>, <<"object", "thrower">>}

\* the engine calls a Reflect routine
CallOuter ==
  /\ stack = <<>>
  /\ returned = NoFrame
  /\ exception = NoException
  /\ \E id \in RoutineIds, args \in ReentrantArgLists :
       stack' = <<NewFrame(id, args)>>
  /\ UNCHANGED <<returned, exception, liveKeys, liveBufs>>

\* The running object-model routine reaches user code (a getter, a setter, a
\* proxy trap, the function applied or constructed) that calls a Reflect
\* routine itself.  User code that goes on after an earlier nested call threw
\* has caught that exception.
Reenter ==
  /\ stack # <<>>
  /\ Top.pc = "running"
  /\ Len(stack) < MaxDepth
  /\ \E id \in RoutineIds, args \in ReentrantArgLists :
       stack' = Append(stack, NewFrame(id, args))
  /\ returned' = NoFrame
  /\ exception' = NoException
  /\ UNCHANGED <<liveKeys, liveBufs>>

NextReentrant ==
  \/ CallOuter
  \/ Validate
  \/ ToPropName
  \/ CreateList
  \/ Invoke
  \/ Reenter
  \/ DelegateReturn
  \/ Epilogue
  \/ Return
  \/ Consume

SpecReentrant == Init /\ [][NextReentrant]_vars

----------------------------------------------------------------------------
(* Properties *)

\* every frame there is: those in progress and the one that has just returned
AllFrames ==
  {stack[i] : i \in DOMAIN stack} \cup (IF returned = NoFrame THEN {} ELSE {returned})

\* the frames about to return or just returned; the pending exception is theirs
ExitFrames == {f \in AllFrames : f.pc = "exit"}

RECURSIVE HeldKeys(_)
HeldKeys(frames) ==
  IF frames = <<>> THEN 0 ELSE Head(frames).held_keys + HeldKeys(Tail(frames))

RECURSIVE HeldBufs(_)
HeldBufs(frames) ==
  IF frames = <<>> THEN 0 ELSE Head(frames).held_bufs + HeldBufs(Tail(frames))

\* the engine routines a frame has called other than the raise of a TypeError
CollaboratorCalls(f) == SelectSeq(f.trace, LAMBDA x : x # "ecma_raise_type_error")

\* the eleven routines other than Construct and Apply
ObjectCheckedRoutines ==
  RoutineIds \ {ECMA_REFLECT_OBJECT_CONSTRUCT, ECMA_REFLECT_OBJECT_APPLY}

FirstArgumentIsObject(args) == Len(args) >= 1 /\ ecma_is_value_object(args[1])

\* C1: a call of one of the eleven routines other than Construct and Apply
\* whose first argument is absent or not an object never leaves validation,
\* returns the error with the TypeError "Argument is not an Object." pending,
\* and has called neither ecma_op_to_prop_name nor an object-model routine.
C1_NonObjectTargetRejected ==
  \A f \in AllFrames :
    (f.id \in ObjectCheckedRoutines /\ ~FirstArgumentIsObject(f.args)) =>
      /\ f.pc \in {"entry", "exit"}
      /\ CollaboratorCalls(f) = <<>>
      /\ f.call = NoCall
      /\ f.held_keys = 0
      /\ f.pc = "exit" =>
           /\ f.result = ECMA_VALUE_ERROR
           /\ exception = ERR_NOT_OBJECT
           /\ f.trace = <<"ecma_raise_type_error">>

\* DefineProperty (5, "thrower") has returned the not-an-object error
C1_Witness ==
  /\ returned # NoFrame
  /\ returned.id = ECMA_REFLECT_OBJECT_DEFINE_PROPERTY
  /\ returned.args = <<"number", "thrower">>
  /\ returned.result = ECMA_VALUE_ERROR
  /\ exception = ERR_NOT_OBJECT

\* C2: the live property-name references are exactly those held by the frames
\* in progress, so none is live once the outermost call has returned; a frame
\* holds at most one name reference and at most one collection; when it
\* returns it holds neither, has released the name exactly once if the
\* coercion produced one, and has released nothing if the coercion failed.
C2_HandlesBalanced ==
  /\ liveKeys = HeldKeys(stack)
  /\ liveBufs = HeldBufs(stack)
  /\ stack = <<>> => (liveKeys = 0 /\ liveBufs = 0)
  /\ \A f \in AllFrames :
       /\ f.held_keys \in {0, 1}
       /\ f.held_bufs \in {0, 1}
       /\ Count(f.trace, "ecma_op_to_prop_name") <= 1
       /\ Count(f.trace, "ecma_op_create_list_from_array_like") <= 1
       /\ f.pc = "exit" =>
            /\ f.held_keys = 0
            /\ f.held_bufs = 0
            /\ Count(f.trace, "ecma_deref_ecma_string")
                 = (IF f.name_str_p = NULL THEN 0 ELSE 1)
            /\ Count(f.trace, "ecma_collection_free")
                 = (IF f.coll_p = NULL THEN 0 ELSE 1)

\* a Get whose getter threw has returned, its name released, nothing live
C2_Witness ==
  /\ returned # NoFrame
  /\ returned.id = ECMA_REFLECT_OBJECT_GET
  /\ returned.ret_value = ECMA_VALUE_ERROR
  /\ returned.name_str_p # NULL
  /\ Count(returned.trace, "ecma_deref_ecma_string") = 1
  /\ liveKeys = 0

\* the three checks of Construct, stated on the caller's argument list
ConstructCheck1Fails(args) == Len(args) < 1 \/ ~ecma_is_constructor(args[1])
ConstructCheck2Fails(args) == Len(args) > 2 /\ ~ecma_is_constructor(args[3])
ConstructCheck3Fails(args) == Len(args) < 2

\* C3: Construct reports the first failing check in the order target,
\* new target, arity; a failing check ends the call with that TypeError
\* pending and with neither the array-like conversion nor the constructor
\* called.
C3_ConstructCheckOrder ==
  \A f \in AllFrames :
    (f.id = ECMA_REFLECT_OBJECT_CONSTRUCT /\ f.pc # "entry") =>
      LET c1 == ConstructCheck1Fails(f.args)
          c2 == ConstructCheck2Fails(f.args)
          c3 == ConstructCheck3Fails(f.args)
          want == CASE c1 -> [msg |-> ERR_NOT_CONSTRUCTOR, site |-> "C.1"]
                    [] ~c1 /\ c2 -> [msg |-> ERR_NOT_CONSTRUCTOR, site |-> "C.3"]
                    [] ~c1 /\ ~c2 /\ c3 -> [msg |-> ERR_CONSTRUCT_ARITY, site |-> "C.4"]
                    [] OTHER -> NoError
      IN IF c1 \/ c2 \/ c3
           THEN /\ f.pc = "exit"
                /\ f.site = want.site
                /\ f.result = ECMA_VALUE_ERROR
                /\ exception = want.msg
                /\ CollaboratorCalls(f) = <<>>
                /\ f.call = NoCall
                /\ f.coll_p = NULL
           ELSE f.site \notin {"C.1", "C.3", "C.4"}

\* Construct ({}) fails the target check and the arity check: the target wins
C3_Witness ==
  /\ returned # NoFrame
  /\ returned.id = ECMA_REFLECT_OBJECT_CONSTRUCT
  /\ returned.args = <<"object">>
  /\ returned.site = "C.1"
  /\ exception = ERR_NOT_CONSTRUCTOR

\* C4: in a Construct call that passed validation, a failed array-like
\* conversion returns its error with no collection and no constructor call;
\* a successful one leaves the collection allocated while the constructor
\* runs and frees it exactly once after the constructor has returned, value
\* or error, and the call returns what the constructor returned.
C4_ConstructBuffer ==
  \A f \in AllFrames :
    (/\ f.id = ECMA_REFLECT_OBJECT_CONSTRUCT
     /\ ~ConstructCheck1Fails(f.args)
     /\ ~ConstructCheck2Fails(f.args)
     /\ ~ConstructCheck3Fails(f.args)
     /\ f.pc \notin {"entry", "create_list"}) =>
      IF ecma_op_create_list_from_array_like(f.args[2]) = NULL
        THEN /\ f.pc = "exit"
             /\ f.result = ECMA_VALUE_ERROR
             /\ exception = EXC_CREATE_LIST
             /\ f.coll_p = NULL
             /\ f.held_bufs = 0
             /\ f.call = NoCall
             /\ f.trace = <<"ecma_op_create_list_from_array_like">>
        ELSE /\ f.pc \in {"call", "running", "epilogue"} =>
                  (f.held_bufs = 1 /\ Count(f.trace, "ecma_collection_free") = 0)
             /\ f.pc = "exit" =>
                  /\ f.trace = <<"ecma_op_create_list_from_array_like",
                                 "ecma_op_function_construct",
                                 "ecma_collection_free">>
                  /\ f.held_bufs = 0
                  /\ f.ret_value \in DelegateOutcomes
                  /\ f.result = f.ret_value
                  /\ exception = (IF ECMA_IS_VALUE_ERROR(f.ret_value)
                                    THEN EXC_DELEGATE ELSE NoException)

\* a Construct whose constructor threw has returned that error, buffer freed
C4_Witness ==
  /\ returned # NoFrame
  /\ returned.id = ECMA_REFLECT_OBJECT_CONSTRUCT
  /\ returned.ret_value = ECMA_VALUE_ERROR
  /\ returned.result = ECMA_VALUE_ERROR
  /\ Count(returned.trace, "ecma_collection_free") = 1
  /\ liveBufs = 0

\* a collaborator failed in this call: a coercion or the object-model routine
CoercionFailed(f) == f.site \in {"to_prop_name", "create_list"}
DelegateFailed(f) == ECMA_IS_VALUE_ERROR(f.ret_value)

\* the two routines that answer a boolean
BooleanRoutines ==
  {ECMA_REFLECT_OBJECT_SET_PROTOTYPE_OF, ECMA_REFLECT_OBJECT_DEFINE_PROPERTY}

Swallowed(f) == f.result = ECMA_VALUE_FALSE /\ exception = NoException
Propagated(f) == f.result = ECMA_VALUE_ERROR /\ exception # NoException

\* C5 as stated: every collaborator error, a failed coercion included, is
\* turned into false with the exception dropped in SetPrototypeOf and
\* DefineProperty, and reaches the caller as an error in the other eleven.
C5_AsStated ==
  \A f \in ExitFrames :
    (CoercionFailed(f) \/ DelegateFailed(f)) =>
      IF f.id \in BooleanRoutines THEN Swallowed(f) ELSE Propagated(f)

\* C5, amended: an error of the object-model routine is turned into false,
\* exception dropped, in SetPrototypeOf and DefineProperty and only there; a
\* failed key coercion in DefineProperty, and every collaborator error in the
\* other eleven routines, reaches the caller as an error with the exception
\* still pending.
C5_ErrorConversion ==
  \A f \in ExitFrames :
    (CoercionFailed(f) \/ DelegateFailed(f)) =>
      IF f.id \in BooleanRoutines /\ DelegateFailed(f)
        THEN Swallowed(f)
        ELSE Propagated(f)

\* DefineProperty whose routine failed has returned false, nothing pending
C5_Witness ==
  /\ returned # NoFrame
  /\ returned.id = ECMA_REFLECT_OBJECT_DEFINE_PROPERTY
  /\ returned.ret_value = ECMA_VALUE_ERROR
  /\ returned.result = ECMA_VALUE_FALSE
  /\ exception = NoException

\* C6: SetPrototypeOf on an object returns false, with no exception pending,
\* when the routine failed and true when it returned any value; it never
\* returns the error.
C6_SetPrototypeOfBoolean ==
  \A f \in ExitFrames :
    (f.id = ECMA_REFLECT_OBJECT_SET_PROTOTYPE_OF /\ FirstArgumentIsObject(f.args)) =>
      /\ f.call.fn = "ecma_builtin_object_object_set_prototype_of"
      /\ f.ret_value \in DelegateOutcomes
      /\ f.result = (IF f.ret_value = ECMA_VALUE_ERROR THEN ECMA_VALUE_FALSE
                                                        ELSE ECMA_VALUE_TRUE)
      /\ exception = NoException

\* SetPrototypeOf whose routine failed has returned false, nothing pending
C6_Witness ==
  /\ returned # NoFrame
  /\ returned.id = ECMA_REFLECT_OBJECT_SET_PROTOTYPE_OF
  /\ returned.ret_value = ECMA_VALUE_ERROR
  /\ returned.result = ECMA_VALUE_FALSE
  /\ exception = NoException

\* the key argument of a Class D routine coerces to a property name
KeyCoerces(args) ==
  ecma_op_to_prop_name(IF Len(args) >= 2 THEN args[2] ELSE ECMA_VALUE_UNDEFINED) # NULL

\* C7: DefineProperty on an object whose key coerced returns false, with no
\* exception pending, when the routine failed and true when it returned any
\* value; either way the name was released exactly once, after the routine.
C7_DefinePropertyBoolean ==
  \A f \in ExitFrames :
    (/\ f.id = ECMA_REFLECT_OBJECT_DEFINE_PROPERTY
     /\ FirstArgumentIsObject(f.args)
     /\ KeyCoerces(f.args)) =>
      /\ f.ret_value \in DelegateOutcomes
      /\ f.result = (IF f.ret_value = ECMA_VALUE_ERROR THEN ECMA_VALUE_FALSE
                                                        ELSE ECMA_VALUE_TRUE)
      /\ exception = NoException
      /\ f.held_keys = 0
      /\ SubSeq(f.trace, 1, 3) = <<"ecma_op_to_prop_name",
                                   "ecma_builtin_object_object_define_property",
                                   "ecma_deref_ecma_string">>
      /\ Count(f.trace, "ecma_deref_ecma_string") = 1

\* DefineProperty whose routine returned a value has returned true
C7_Witness ==
  /\ returned # NoFrame
  /\ returned.id = ECMA_REFLECT_OBJECT_DEFINE_PROPERTY
  /\ returned.ret_value = ECMA_VALUE_FALSE
  /\ returned.result = ECMA_VALUE_TRUE
  /\ Count(returned.trace, "ecma_deref_ecma_string") = 1

\* C8: DefineProperty on an object whose key does not coerce never reaches
\* the routine and returns the error with the coercion's exception pending,
\* releasing nothing.
C8_DefinePropertyKeyFailure ==
  \A f \in AllFrames :
    (/\ f.id = ECMA_REFLECT_OBJECT_DEFINE_PROPERTY
     /\ FirstArgumentIsObject(f.args)
     /\ ~KeyCoerces(f.args)) =>
      /\ f.pc \in {"entry", "to_prop_name", "exit"}
      /\ f.call = NoCall
      /\ Count(f.trace, "ecma_deref_ecma_string") = 0
      /\ f.pc = "exit" =>
           /\ f.result = ECMA_VALUE_ERROR
           /\ exception = EXC_TO_PROP_NAME
           /\ f.trace = <<"ecma_op_to_prop_name">>

\* DefineProperty ({}, thrower) has returned the coercion's error
C8_Witness ==
  /\ returned # NoFrame
  /\ returned.id = ECMA_REFLECT_OBJECT_DEFINE_PROPERTY
  /\ returned.args = <<"object", "thrower">>
  /\ returned.result = ECMA_VALUE_ERROR
  /\ exception = EXC_TO_PROP_NAME

\* C9: GetOwnPropertyDescriptor on an object returns the coercion's error
\* without calling the routine when the key does not coerce, and otherwise
\* returns what the routine returned, value or error with its exception
\* pending, after releasing the name.
C9_GetOwnPropertyDescriptorUnchanged ==
  \A f \in ExitFrames :
    (/\ f.id = ECMA_REFLECT_OBJECT_GET_OWN_PROPERTY_DESCRIPTOR
     /\ FirstArgumentIsObject(f.args)) =>
      IF KeyCoerces(f.args)
        THEN /\ f.ret_value \in DelegateOutcomes
             /\ f.result = f.ret_value
             /\ exception = (IF f.ret_value = ECMA_VALUE_ERROR THEN EXC_DELEGATE
                                                                ELSE NoException)
             /\ f.held_keys = 0
             /\ f.trace = <<"ecma_op_to_prop_name",
                            "ecma_builtin_object_object_get_own_property_descriptor",
                            "ecma_deref_ecma_string">>
        ELSE /\ f.result = ECMA_VALUE_ERROR
             /\ exception = EXC_TO_PROP_NAME
             /\ f.call = NoCall
             /\ f.trace = <<"ecma_op_to_prop_name">>

\* GetOwnPropertyDescriptor whose routine failed has returned that error
C9_Witness ==
  /\ returned # NoFrame
  /\ returned.id = ECMA_REFLECT_OBJECT_GET_OWN_PROPERTY_DESCRIPTOR
  /\ returned.ret_value = ECMA_VALUE_ERROR
  /\ returned.result = ECMA_VALUE_ERROR
  /\ exception = EXC_DELEGATE
  /\ Count(returned.trace, "ecma_deref_ecma_string") = 1

\* the first argument of Apply, absent read as undefined, is not callable
ApplyTargetNotCallable(args) ==
  Len(args) = 0 \/ ~ecma_op_is_callable(args[1])

\* C10 as stated: Apply with any non-callable first argument, object or not,
\* returns the TypeError "Argument 'this' is not a function." and never calls
\* the apply routine.
C10_AsStated ==
  \A f \in ExitFrames :
    (f.id = ECMA_REFLECT_OBJECT_APPLY /\ ApplyTargetNotCallable(f.args)) =>
      /\ f.result = ECMA_VALUE_ERROR
      /\ exception = ERR_NOT_FUNCTION
      /\ f.call = NoCall

\* C10, amended: Apply with a non-callable first argument never calls the
\* apply routine and returns a TypeError: "Argument 'this' is not a
\* function." when the argument is an object, "Argument is not an Object."
\* when it is absent or not an object.
C10_ApplyNotCallable ==
  \A f \in AllFrames :
    (f.id = ECMA_REFLECT_OBJECT_APPLY /\ ApplyTargetNotCallable(f.args)) =>
      /\ f.pc \in {"entry", "exit"}
      /\ f.call = NoCall
      /\ CollaboratorCalls(f) = <<>>
      /\ f.pc = "exit" =>
           /\ f.result = ECMA_VALUE_ERROR
           /\ exception = (IF FirstArgumentIsObject(f.args) THEN ERR_NOT_FUNCTION
                                                            ELSE ERR_NOT_OBJECT)

\* Apply ({}, undefined, thrower) has returned the not-a-function error
C10_Witness ==
  /\ returned # NoFrame
  /\ returned.id = ECMA_REFLECT_OBJECT_APPLY
  /\ returned.args = <<"object", "undefined", "thrower">>
  /\ returned.result = ECMA_VALUE_ERROR
  /\ exception = ERR_NOT_FUNCTION
  /\ returned.call = NoCall

\* the caller's argument at 0-based position i, undefined when it gave fewer
Given(args, i) == IF Len(args) > i THEN args[i + 1] ELSE ECMA_VALUE_UNDEFINED

\* C11: Get hands its routine args[2] as the receiver when more than two
\* arguments were given and the target args[0] otherwise; Set hands args[2]
\* as the value and args[3] as the receiver when more than three arguments
\* were given and the target otherwise.  An explicit receiver is handed over
\* as it is, whatever its kind.
C11_ReceiverOverride ==
  \A f \in AllFrames :
    /\ f.call.fn = "ecma_op_object_get_with_receiver" =>
         /\ f.id = ECMA_REFLECT_OBJECT_GET
         /\ f.call.target = ecma_get_object_from_value(f.args[1])
         /\ f.call.receiver = (IF Len(f.args) > 2 THEN f.args[3] ELSE f.args[1])
    /\ f.call.fn = "ecma_op_object_put_with_receiver" =>
         /\ f.id = ECMA_REFLECT_OBJECT_SET
         /\ f.call.target = ecma_get_object_from_value(f.args[1])
         /\ Len(f.args) > 2 => f.call.value = f.args[3]
         /\ f.call.receiver = (IF Len(f.args) > 3 THEN f.args[4] ELSE f.args[1])
    /\ (f.id \in {ECMA_REFLECT_OBJECT_GET, ECMA_REFLECT_OBJECT_SET}
        /\ f.pc \in {"running", "epilogue"}) =>
         f.call.fn \in {"ecma_op_object_get_with_receiver",
                        "ecma_op_object_put_with_receiver"}

\* Get ({}, 5, undefined) runs its routine with the receiver undefined
C11_Witness ==
  /\ stack # <<>>
  /\ Top.pc = "running"
  /\ Top.id = ECMA_REFLECT_OBJECT_GET
  /\ Top.args = <<"object", "number", "undefined">>
  /\ Top.call.receiver = "undefined"

\* the seven routines of Class D
ClassDRoutines ==
  {ECMA_REFLECT_OBJECT_GET_PROTOTYPE_OF, ECMA_REFLECT_OBJECT_SET_PROTOTYPE_OF,
   ECMA_REFLECT_OBJECT_APPLY, ECMA_REFLECT_OBJECT_DEFINE_PROPERTY,
   ECMA_REFLECT_OBJECT_GET_OWN_PROPERTY_DESCRIPTOR,
   ECMA_REFLECT_OBJECT_IS_EXTENSIBLE, ECMA_REFLECT_OBJECT_PREVENT_EXTENSIONS}

Coercions == {"ecma_op_to_prop_name", "ecma_op_create_list_from_array_like"}

FacadeRoutines ==
  {"ecma_op_object_get_with_receiver", "ecma_op_object_put_with_receiver",
   "ecma_op_object_has_property", "ecma_op_object_delete",
   "ecma_builtin_helper_object_get_properties", "ecma_op_function_construct",
   "ecma_builtin_object_object_get_prototype_of",
   "ecma_builtin_object_object_set_prototype_of",
   "ecma_builtin_function_prototype_object_apply",
   "ecma_builtin_object_object_define_property",
   "ecma_builtin_object_object_get_own_property_descriptor",
   "ecma_builtin_object_object_is_extensible",
   "ecma_builtin_object_object_prevent_extensions"}

\* the coercions and routine calls of a frame, in the order it made them
WorkCalls(f) == SelectSeq(f.trace, LAMBDA x : x \in Coercions \cup FacadeRoutines)

\* how far a frame has got
PcRank(pc) ==
  CASE pc = "entry" -> 0
    [] pc \in {"to_prop_name", "create_list"} -> 1
    [] pc = "call" -> 2
    [] pc = "running" -> 3
    [] pc = "epilogue" -> 4
    [] OTHER -> 5

\* in every frame: at most one coercion, then at most one routine call;
\* nothing after a failed validation or a failed coercion
C15_AtMostOnce ==
  \A f \in AllFrames :
    /\ Len(WorkCalls(f)) <= 2
    /\ Len(WorkCalls(f)) = 2 =>
         (WorkCalls(f)[1] \in Coercions /\ WorkCalls(f)[2] \in FacadeRoutines)
    /\ Count(f.trace, "ecma_raise_type_error") > 0 =>
         (f.trace = <<"ecma_raise_type_error">> /\ f.pc = "exit")
    /\ CoercionFailed(f) =>
         (Len(f.trace) = 1 /\ f.trace[1] \in Coercions /\ f.pc = "exit")
    /\ Len(f.trace) <= 4

\* a step taken inside a call moves that call forward
C15_Progress ==
  (stack # <<>> /\ Len(stack') = Len(stack)) => PcRank(Top'.pc) > PcRank(Top.pc)

\* C15: no routine retries.  A call makes at most one coercion
\* (ecma_op_to_prop_name or ecma_op_create_list_from_array_like) and after it
\* at most one object-model routine call, makes none of them after a failed
\* validation or coercion, and every step inside it moves it forward through
\* a fixed number of stages, so it returns after a bounded number of steps.
C15_NoRetry == []C15_AtMostOnce /\ [][C15_Progress]_vars

\* Has ({}, 5) has returned after one coercion and one routine call
C15_Witness ==
  /\ returned # NoFrame
  /\ returned.id = ECMA_REFLECT_OBJECT_HAS
  /\ returned.args = <<"object", "number">>
  /\ WorkCalls(returned) = <<"ecma_op_to_prop_name", "ecma_op_object_has_property">>

\* the TypeErrors the dispatcher raises itself
ShapeErrorMessages ==
  {ERR_NOT_OBJECT, ERR_NOT_CONSTRUCTOR, ERR_CONSTRUCT_ARITY, ERR_NOT_FUNCTION}

\* C16: a call starts with no exception pending, and when it returns its
\* result is the error exactly when an exception is pending: the TypeError of
\* a failed validation, the exception of a failed coercion, or the exception
\* of the object-model routine.  A value result, the false of SetPrototypeOf
\* and DefineProperty included, leaves none pending.
C16_ErrorIffPending ==
  /\ \A f \in AllFrames : f.pc = "entry" => exception = NoException
  /\ \A f \in ExitFrames :
       /\ f.result # NoValue
       /\ (f.result = ECMA_VALUE_ERROR) <=> (exception # NoException)
       /\ f.result = ECMA_VALUE_ERROR =>
            exception = (CASE Count(f.trace, "ecma_raise_type_error") = 1 ->
                                ShapeError(f.id, f.args).msg
                           [] f.site = "to_prop_name" -> EXC_TO_PROP_NAME
                           [] f.site = "create_list" -> EXC_CREATE_LIST
                           [] OTHER -> EXC_DELEGATE)
       /\ Count(f.trace, "ecma_raise_type_error") = 1 =>
            exception \in ShapeErrorMessages

\* IsExtensible whose routine failed has returned the error, exception pending
C16_Witness ==
  /\ returned # NoFrame
  /\ returned.id = ECMA_REFLECT_OBJECT_IS_EXTENSIBLE
  /\ returned.ret_value = ECMA_VALUE_ERROR
  /\ returned.result = ECMA_VALUE_ERROR
  /\ exception = EXC_DELEGATE

\* C17: Construct returns the arity TypeError exactly when it was given one
\* argument and that argument is a constructor; the new-target check fails
\* only in calls with more than two arguments, so never together with the
\* arity check.
C17_ConstructArity ==
  \A f \in ExitFrames :
    f.id = ECMA_REFLECT_OBJECT_CONSTRUCT =>
      /\ (f.result = ECMA_VALUE_ERROR /\ exception = ERR_CONSTRUCT_ARITY)
           <=> (Len(f.args) = 1 /\ ecma_is_constructor(f.args[1]))
      /\ f.site = "C.4" <=> (Len(f.args) = 1 /\ ecma_is_constructor(f.args[1]))
      /\ f.site = "C.3" =>
           (Len(f.args) > 2 /\ ~ecma_is_constructor(f.args[3])
            /\ exception = ERR_NOT_CONSTRUCTOR)

\* Construct (class) has returned the arity error
C17_Witness ==
  /\ returned # NoFrame
  /\ returned.id = ECMA_REFLECT_OBJECT_CONSTRUCT
  /\ returned.args = <<"class">>
  /\ returned.site = "C.4"
  /\ exception = ERR_CONSTRUCT_ARITY

\* the object-model routines that are handed the property name
KeyRoutines ==
  {"ecma_op_object_get_with_receiver", "ecma_op_object_put_with_receiver",
   "ecma_op_object_has_property", "ecma_op_object_delete",
   "ecma_builtin_object_object_define_property",
   "ecma_builtin_object_object_get_own_property_descriptor"}

\* the 1-based place of the first fn in a trace, 0 when it is not there
RECURSIVE FirstAt(_, _)
FirstAt(trace, fn) ==
  IF trace = <<>> THEN 0
  ELSE IF Head(trace) = fn THEN 1
  ELSE IF FirstAt(Tail(trace), fn) = 0 THEN 0
  ELSE 1 + FirstAt(Tail(trace), fn)

\* C18: while an object-model routine that was handed the property name
\* runs, and until it has returned, the frame still holds the reference it
\* got from ecma_op_to_prop_name and has not dereferenced it; while the
\* constructor runs the frame still holds the collection; a release appears
\* in a frame's trace only after the routine call.
C18_HeldWhileRunning ==
  \A f \in AllFrames :
    /\ (f.call.fn \in KeyRoutines /\ f.pc \in {"running", "epilogue"}) =>
         /\ f.name_str_p # NULL
         /\ f.call.name = f.name_str_p
         /\ f.held_keys = 1
         /\ liveKeys >= 1
         /\ Count(f.trace, "ecma_deref_ecma_string") = 0
    /\ (f.call.fn = "ecma_op_function_construct" /\ f.pc \in {"running", "epilogue"}) =>
         /\ f.coll_p # NULL
         /\ f.call.buffer = f.coll_p.buffer_p
         /\ f.held_bufs = 1
         /\ liveBufs >= 1
         /\ Count(f.trace, "ecma_collection_free") = 0
    /\ (ValidationClass(f.id) = "A"
        \/ f.id \in {ECMA_REFLECT_OBJECT_DEFINE_PROPERTY,
                     ECMA_REFLECT_OBJECT_GET_OWN_PROPERTY_DESCRIPTOR}) =>
         (f.pc \in {"running", "epilogue"} => f.call.fn \in KeyRoutines)
    /\ FirstAt(f.trace, "ecma_deref_ecma_string") > 0 =>
         /\ f.call.fn \in KeyRoutines
         /\ FirstAt(f.trace, f.call.fn) > 0
         /\ FirstAt(f.trace, f.call.fn) < FirstAt(f.trace, "ecma_deref_ecma_string")
         /\ f.ret_value # NoValue
    /\ FirstAt(f.trace, "ecma_collection_free") > 0 =>
         /\ FirstAt(f.trace, "ecma_op_function_construct") > 0
         /\ FirstAt(f.trace, "ecma_op_function_construct")
              < FirstAt(f.trace, "ecma_collection_free")
         /\ f.ret_value # NoValue

\* DeleteProperty ({}, 5) is inside its routine, holding the name
C18_Witness ==
  /\ stack # <<>>
  /\ Top.pc = "running"
  /\ Top.id = ECMA_REFLECT_OBJECT_DELETE_PROPERTY
  /\ Top.call.fn = "ecma_op_object_delete"
  /\ Top.held_keys = 1
  /\ liveKeys = 1

\* the class and the object-model routine the specification gives a routine
ClassARoutines ==
  {ECMA_REFLECT_OBJECT_GET, ECMA_REFLECT_OBJECT_SET, ECMA_REFLECT_OBJECT_HAS,
   ECMA_REFLECT_OBJECT_DELETE_PROPERTY}

ExpectedClass(id) ==
  CASE id \in ClassARoutines -> "A"
    [] id = ECMA_REFLECT_OBJECT_OWN_KEYS -> "B"
    [] id = ECMA_REFLECT_OBJECT_CONSTRUCT -> "C"
    [] id \in ClassDRoutines -> "D"

ExpectedRoutine(id) ==
  CASE id = ECMA_REFLECT_OBJECT_GET -> "ecma_op_object_get_with_receiver"
    [] id = ECMA_REFLECT_OBJECT_SET -> "ecma_op_object_put_with_receiver"
    [] id = ECMA_REFLECT_OBJECT_HAS -> "ecma_op_object_has_property"
    [] id = ECMA_REFLECT_OBJECT_DELETE_PROPERTY -> "ecma_op_object_delete"
    [] id = ECMA_REFLECT_OBJECT_OWN_KEYS -> "ecma_builtin_helper_object_get_properties"
    [] id = ECMA_REFLECT_OBJECT_CONSTRUCT -> "ecma_op_function_construct"
    [] id = ECMA_REFLECT_OBJECT_GET_PROTOTYPE_OF ->
         "ecma_builtin_object_object_get_prototype_of"
    [] id = ECMA_REFLECT_OBJECT_SET_PROTOTYPE_OF ->
         "ecma_builtin_object_object_set_prototype_of"
    [] id = ECMA_REFLECT_OBJECT_APPLY -> "ecma_builtin_function_prototype_object_apply"
    [] id = ECMA_REFLECT_OBJECT_DEFINE_PROPERTY ->
         "ecma_builtin_object_object_define_property"
    [] id = ECMA_REFLECT_OBJECT_GET_OWN_PROPERTY_DESCRIPTOR ->
         "ecma_builtin_object_object_get_own_property_descriptor"
    [] id = ECMA_REFLECT_OBJECT_IS_EXTENSIBLE ->
         "ecma_builtin_object_object_is_extensible"
    [] id = ECMA_REFLECT_OBJECT_PREVENT_EXTENSIONS ->
         "ecma_builtin_object_object_prevent_extensions"

\* the class whose code raised at a site or runs at a stage
SiteClass(site) ==
  CASE site = "A.1" -> "A"
    [] site = "B.1" -> "B"
    [] site \in {"C.1", "C.3", "C.4", "create_list"} -> "C"
    [] site \in {"D.1", "D.apply"} -> "D"
    [] OTHER -> "any"

\* C19: each of the thirteen identifiers runs the code of the class the
\* specification gives it (Get, Set, Has, DeleteProperty A; OwnKeys B;
\* Construct C; the other seven D) and calls the one object-model routine of
\* its own branch; both assertions hold whenever a default branch is taken,
\* which only Set (Class A) and PreventExtensions (Class D) do.
C19_ClassAndBranch ==
  \A f \in AllFrames :
    /\ f.id \in RoutineIds
    /\ ValidationClass(f.id) = ExpectedClass(f.id)
    /\ SiteClass(f.site) \in {"any", ExpectedClass(f.id)}
    /\ f.pc = "create_list" => ExpectedClass(f.id) = "C"
    /\ f.pc = "to_prop_name" =>
         (ExpectedClass(f.id) = "A"
          \/ f.id \in {ECMA_REFLECT_OBJECT_DEFINE_PROPERTY,
                       ECMA_REFLECT_OBJECT_GET_OWN_PROPERTY_DESCRIPTOR})
    /\ f.call # NoCall => f.call.fn = ExpectedRoutine(f.id)
    /\ f.assert_ok
    /\ (f.call # NoCall /\ ExpectedClass(f.id) = "A" /\ ClassABranch(f.id) = "default") =>
         f.id = ECMA_REFLECT_OBJECT_SET
    /\ (f.call # NoCall /\ ExpectedClass(f.id) = "D" /\ ClassDBranch(f.id) = "default") =>
         f.id = ECMA_REFLECT_OBJECT_PREVENT_EXTENSIONS

\* PreventExtensions ({}) is inside its routine, reached by the default branch
C19_Witness ==
  /\ stack # <<>>
  /\ Top.pc = "running"
  /\ Top.id = ECMA_REFLECT_OBJECT_PREVENT_EXTENSIONS
  /\ ClassDBranch(Top.id) = "default"
  /\ Top.call.fn = "ecma_builtin_object_object_prevent_extensions"
  /\ Top.assert_ok

\* the frames under the top one: the callers waiting inside their routine
Waiting == {i \in DOMAIN stack : i < Len(stack)}

\* in every state: the live references and collections are those the frames
\* in progress hold; a waiting frame is inside its routine and still holds
\* what it acquired; a call that has returned holds nothing
C13_FramesOwnTheirs ==
  /\ liveKeys = HeldKeys(stack)
  /\ liveBufs = HeldBufs(stack)
  /\ stack = <<>> => (liveKeys = 0 /\ liveBufs = 0)
  /\ returned # NoFrame => (returned.held_keys = 0 /\ returned.held_bufs = 0)
  /\ \A i \in Waiting :
       /\ stack[i].pc = "running"
       /\ stack[i].call.fn \in KeyRoutines =>
            (stack[i].held_keys = 1
             /\ Count(stack[i].trace, "ecma_deref_ecma_string") = 0)
       /\ stack[i].call.fn = "ecma_op_function_construct" =>
            (stack[i].held_bufs = 1
             /\ Count(stack[i].trace, "ecma_collection_free") = 0)

\* in every step: the waiting frames are left as they are; a nested return
\* changes no live count; only the top frame, the last to acquire, acquires
\* or releases, one reference or collection at a time
C13_TopOnly ==
  /\ \A i \in Waiting : stack'[i] = stack[i]
  /\ Len(stack') < Len(stack) =>
       (liveKeys' = liveKeys /\ liveBufs' = liveBufs
        /\ Top.held_keys = 0 /\ Top.held_bufs = 0)
  /\ liveKeys' # liveKeys =>
       /\ Len(stack') = Len(stack)
       /\ Top'.held_keys - Top.held_keys = liveKeys' - liveKeys
       /\ liveKeys' - liveKeys \in {-1, 1}
  /\ liveBufs' # liveBufs =>
       /\ Len(stack') = Len(stack)
       /\ Top'.held_bufs - Top.held_bufs = liveBufs' - liveBufs
       /\ liveBufs' - liveBufs \in {-1, 1}

\* C13: when routines call back into the dispatcher, a nested call releases
\* only what it acquired itself: the caller's name reference or collection
\* is still held when its routine returns to it, acquisitions and releases
\* are made by the innermost call only, so in last-acquired-first-released
\* order, and nothing is live once the outermost call has returned.
C13_Reentrancy == []C13_FramesOwnTheirs /\ [][C13_TopOnly]_vars

\* a nested call that acquired and released its own name has returned into
\* a routine whose frame still holds its name
C13_Witness ==
  /\ Len(stack) = 1
  /\ Top.pc = "running"
  /\ Top.call.fn \in KeyRoutines
  /\ Top.held_keys = 1
  /\ returned # NoFrame
  /\ returned.name_str_p # NULL
  /\ Count(returned.trace, "ecma_deref_ecma_string") = 1
  /\ liveKeys = 1

====
